---- MODULE Spec2Model ----
(***************************************************************************)
(* Cross-Impact Mapping Tool (src/app.py).                                 *)
(*                                                                         *)
(* The program is one Streamlit script.  Its state is the state of its     *)
(* input widgets (the two centre inputs, the scenario selector, the factor *)
(* editor, the reflection box); every interaction with a widget re-runs    *)
(* the whole script, which recomputes the classified table, the chart and  *)
(* the downloads from the widgets' current values.                         *)
(*                                                                         *)
(* Scores are modelled as integers.  A cell of the editor is empty (None), *)
(* a text (a tuple of one-character strings) or a number.                  *)
(***************************************************************************)
EXTENDS Integers, Sequences, FiniteSets, TLC

VARIABLES
    scenario_name,  \* the selectbox (line 104)
    store,          \* what st.data_editor returns: base_data with the user's edits (line 127)
    x_centre,       \* sidebar number input (line 34)
    y_centre,       \* sidebar number input (line 37)
    reflection,     \* the text area (line 283)
    out,            \* what the last run of the script computed and showed:
                    \*   data      the DataFrame after dropna and classification (lines 138-161)
                    \*   dtypes    dtype of its score columns after pd.to_numeric (line 136)
                    \*   fig       the chart, or the placeholder (lines 208-276)
                    \*   downloads the download buttons, or the placeholder (lines 297-325)
                    \*   raised    TRUE when the run stopped on an exception
    probe           \* one application of classify_quadrant to drawn inputs

vars == <<scenario_name, store, x_centre, y_centre, reflection, out, probe>>

ui_vars == <<scenario_name, store, x_centre, y_centre, reflection, out>>

(***************************************************************************)
(* Bounds                                                                  *)
(***************************************************************************)
MaxRows == 2
MaxScore == 13
MaxCentre == 1

DefaultCentre == 0

(***************************************************************************)
(* Cells of the editor                                                     *)
(***************************************************************************)
None == [kind |-> "none", chars |-> <<>>, val |-> 0]
Text(c) == [kind |-> "text", chars |-> c, val |-> 0]
Num(n) == [kind |-> "num", chars |-> <<>>, val |-> n]

\* A Factor cell: missing, or a string (possibly the empty string).
NoName == [kind |-> "none", s |-> ""]
Name(s) == [kind |-> "text", s |-> s]

Row(f, d, i) == [Factor |-> f, Dependence |-> d, Influence |-> i]

blank_data == <<>>

uk_creative ==
    << Row(Name("AI-everything & automation"), Num(-5), Num(13)),
       Row(Name("Public funding & cultural policy"), Num(8), Num(11)),
       Row(Name("Cost of living & inflation"), Num(9), Num(13)),
       Row(Name("Digital platforms & intermediaries"), Num(4), Num(10)),
       Row(Name("Skills pipeline & training access"), Num(7), Num(9)),
       Row(Name("Ticket pricing & audience affordability"), Num(7), Num(-2)) >>

scotland_creative ==
    << Row(Name("AI-everything & automation (Scotland)"), Num(-5), Num(13)),
       Row(Name("Creative Scotland & local authority funding"), Num(8), Num(11)),
       Row(Name("Brexit, trade & touring"), Num(10), Num(9)),
       Row(Name("Cultural values & changing audiences"), Num(-4), Num(8)),
       Row(Name("Local venue & studio viability"), Num(7), Num(-3)),
       Row(Name("Freelance income & precarity"), Num(9), Num(-4)) >>

Blank == "Blank / start from scratch"
UK == "UK Creative Industries"
Scotland == "Scottish Creative Industries"

scenario_options ==
    [s \in {Blank, UK, Scotland} |->
        IF s = Blank THEN blank_data
        ELSE IF s = UK THEN uk_creative ELSE scotland_creative]

(***************************************************************************)
(* pd.to_numeric                                                           *)
(***************************************************************************)
DigitChars == <<"0", "1", "2", "3", "4", "5", "6", "7", "8", "9">>

IsDigit(c) == \E k \in 1..10 : DigitChars[k] = c

DigitVal(c) == (CHOOSE k \in 1..10 : DigitChars[k] = c) - 1

RECURSIVE DigitsVal(_)
DigitsVal(s) ==
    IF s = <<>> THEN 0
    ELSE 10 * DigitsVal(SubSeq(s, 1, Len(s) - 1)) + DigitVal(s[Len(s)])

IsDigits(s) == Len(s) > 0 /\ \A k \in 1..Len(s) : IsDigit(s[k])

AllZeros(s) == Len(s) > 0 /\ \A k \in 1..Len(s) : s[k] = "0"

NaN == [nan |-> TRUE, val |-> 0, float |-> TRUE, exc |-> FALSE]
IntVal(n) == [nan |-> FALSE, val |-> n, float |-> FALSE, exc |-> FALSE]
FloatVal(n) == [nan |-> FALSE, val |-> n, float |-> TRUE, exc |-> FALSE]
ValueError == [nan |-> TRUE, val |-> 0, float |-> TRUE, exc |-> TRUE]

\* The number a text denotes: an optional "-", digits, and optionally a
\* "." followed by zeros (integers are the modelled scores).  Any other
\* text is unparsable.
ParseText(s, unparsable) ==
    LET neg == Len(s) > 0 /\ s[1] = "-"
        body == IF neg THEN Tail(s) ELSE s
        dots == {k \in 1..Len(body) : body[k] = "."}
        ipart == IF dots = {} THEN body
                 ELSE SubSeq(body, 1, (CHOOSE k \in dots : \A j \in dots : k <= j) - 1)
        fpart == IF dots = {} THEN <<>>
                 ELSE SubSeq(body, (CHOOSE k \in dots : \A j \in dots : k <= j) + 1, Len(body))
        mag == DigitsVal(ipart)
        v == IF neg THEN 0 - mag ELSE mag
    IN  IF ~IsDigits(ipart) THEN unparsable
        ELSE IF dots = {} THEN IntVal(v)
        ELSE IF AllZeros(fpart) THEN FloatVal(v)
        ELSE unparsable

ToNumericWith(cell, errors) ==
    IF cell.kind = "none" THEN NaN
    ELSE IF cell.kind = "num" THEN IntVal(cell.val)
    ELSE ParseText(cell.chars, IF errors = "coerce" THEN NaN ELSE ValueError)

to_numeric_raise(cell) == ToNumericWith(cell, "raise")

to_numeric(cell) == ToNumericWith(cell, "coerce")

(***************************************************************************)
(* dropna                                                                  *)
(***************************************************************************)
NotNa(row) ==
    /\ row.Factor.kind # "none"
    /\ ~to_numeric(row.Dependence).nan
    /\ ~to_numeric(row.Influence).nan

RECURSIVE SelectRows(_, _, _)
SelectRows(ed, keep, p) ==
    IF p > Len(ed) THEN <<>>
    ELSE (IF p \in keep
            THEN << [row |-> p,
                     Factor |-> ed[p].Factor.s,
                     Dependence |-> to_numeric(ed[p].Dependence).val,
                     Influence |-> to_numeric(ed[p].Influence).val] >>
            ELSE <<>>)
         \o SelectRows(ed, keep, p + 1)

\* A filter that stops at the first row with a missing value.
dropna_truncate(ed) ==
    SelectRows(ed, {p \in 1..Len(ed) : \A q \in 1..p : NotNa(ed[q])}, 1)

dropna(ed) == SelectRows(ed, {p \in 1..Len(ed) : NotNa(ed[p])}, 1)

\* dtype of a score column after pd.to_numeric: float64 as soon as one
\* element is NaN or a float, else int64.
ColumnDtype(ed, col) ==
    IF \E p \in 1..Len(ed) : to_numeric(ed[p][col]).float
    THEN "float64" ELSE "int64"

(***************************************************************************)
(* classify_quadrant                                                       *)
(***************************************************************************)
Quadrants == {"Active", "Critical", "Passive", "Inactive"}

classify_quadrant_x_nonstrict(row, x0, y0) ==
    LET x == row.Dependence
        y == row.Influence
    IN  IF x <= x0 /\ y > y0 THEN "Active"
        ELSE IF x >= x0 /\ y > y0 THEN "Critical"
        ELSE IF x >= x0 /\ y <= y0 THEN "Passive"
        ELSE "Inactive"

classify_quadrant_y_nonstrict(row, x0, y0) ==
    LET x == row.Dependence
        y == row.Influence
    IN  IF x < x0 /\ y >= y0 THEN "Active"
        ELSE IF x >= x0 /\ y > y0 THEN "Critical"
        ELSE IF x >= x0 /\ y <= y0 THEN "Passive"
        ELSE "Inactive"

classify_quadrant_critical_nonstrict(row, x0, y0) ==
    LET x == row.Dependence
        y == row.Influence
    IN  IF x < x0 /\ y > y0 THEN "Active"
        ELSE IF x >= x0 /\ y >= y0 THEN "Critical"
        ELSE IF x >= x0 /\ y <= y0 THEN "Passive"
        ELSE "Inactive"

classify_quadrant(row, x0, y0) ==
    LET x == row.Dependence
        y == row.Influence
    IN  IF x < x0 /\ y > y0 THEN "Active"
        ELSE IF x >= x0 /\ y > y0 THEN "Critical"
        ELSE IF x >= x0 /\ y <= y0 THEN "Passive"
        ELSE "Inactive"

WithQuadrant(r, q) ==
    [row |-> r.row, Factor |-> r.Factor, Dependence |-> r.Dependence,
     Influence |-> r.Influence, Quadrant |-> q]

\* A classification against the default centre instead of the sidebar's.
apply_classify_default_centre(d, x0, y0) ==
    [k \in 1..Len(d) |->
        WithQuadrant(d[k], classify_quadrant(d[k], DefaultCentre, DefaultCentre))]

apply_classify(d, x0, y0) ==
    [k \in 1..Len(d) |-> WithQuadrant(d[k], classify_quadrant(d[k], x0, y0))]

(***************************************************************************)
(* The chart                                                               *)
(***************************************************************************)
color_discrete_map ==
    [q \in Quadrants |->
        IF q = "Active" THEN "#1b9e77"
        ELSE IF q = "Critical" THEN "#d95f02"
        ELSE IF q = "Passive" THEN "#7570b3"
        ELSE "#e6ab02"]

NoOutput == [kind |-> "absent", points |-> <<>>, vline |-> 0, hline |-> 0]

scatter(d, x0, y0) ==
    [kind |-> "chart",
     points |-> [k \in 1..Len(d) |->
                    [x |-> d[k].Dependence, y |-> d[k].Influence,
                     color |-> color_discrete_map[d[k].Quadrant],
                     text |-> d[k].Factor]],
     vline |-> x0, hline |-> y0]

plot(d, x0, y0) ==
    IF Len(d) = 0
    THEN [kind |-> "info", points |-> <<>>, vline |-> 0, hline |-> 0]
    ELSE scatter(d, x0, y0)

(***************************************************************************)
(* The downloads                                                           *)
(***************************************************************************)
Whitespace == {" ", "\n", "\t"}

RECURSIVE LStrip(_)
LStrip(s) ==
    IF s # <<>> /\ s[1] \in Whitespace THEN LStrip(Tail(s)) ELSE s

RECURSIVE RStrip(_)
RStrip(s) ==
    IF s # <<>> /\ s[Len(s)] \in Whitespace
    THEN RStrip(SubSeq(s, 1, Len(s) - 1)) ELSE s

strip(s) == RStrip(LStrip(s))

RECURSIVE FormatNat(_)
FormatNat(n) ==
    IF n < 10 THEN <<DigitChars[n + 1]>>
    ELSE FormatNat(n \div 10) \o <<DigitChars[(n % 10) + 1]>>

\* A score written without its sign.
format_number_unsigned(n, dtype) ==
    FormatNat(IF n < 0 THEN 0 - n ELSE n)
        \o (IF dtype = "float64" THEN <<".", "0">> ELSE <<>>)

format_number(n, dtype) ==
    (IF n < 0 THEN <<"-">> ELSE <<>>)
        \o FormatNat(IF n < 0 THEN 0 - n ELSE n)
        \o (IF dtype = "float64" THEN <<".", "0">> ELSE <<>>)

CsvHeader == <<"Scenario", "Factor", "Dependence", "Influence", "Quadrant">>

CsvRow(r, dt, scen) ==
    [Scenario |-> scen,
     Factor |-> r.Factor,
     Dependence |-> format_number(r.Dependence, dt.Dependence),
     Influence |-> format_number(r.Influence, dt.Influence),
     Quadrant |-> r.Quadrant]

\* A writer that takes the first record for the header.
to_csv_skip_first(d, dt, scen) ==
    [header |-> CsvHeader,
     rows |-> [k \in 1..(IF Len(d) = 0 THEN 0 ELSE Len(d) - 1) |->
                  CsvRow(d[k + 1], dt, scen)]]

to_csv(d, dt, scen) ==
    [header |-> CsvHeader,
     rows |-> [k \in 1..Len(d) |-> CsvRow(d[k], dt, scen)]]

NoCsv == [header |-> <<>>, rows |-> <<>>]

NoDownloads ==
    [offered |-> FALSE, csv |-> NoCsv,
     txt |-> [scenario |-> "", entered |-> FALSE, reflection |-> <<>>, csv |-> NoCsv]]

\* An export guard that takes whitespace for a reflection.
export_disabled_nostrip(d, refl) == Len(d) = 0 /\ refl = <<>>

export_disabled(d, refl) == Len(d) = 0 /\ strip(refl) = <<>>

export(d, dt, scen, refl) ==
    IF export_disabled(d, refl) THEN NoDownloads
    ELSE [offered |-> TRUE,
          csv |-> to_csv(d, dt, scen),
          txt |-> [scenario |-> scen,
                   entered |-> strip(refl) # <<>>,
                   reflection |-> strip(refl),
                   csv |-> to_csv(d, dt, scen)]]

(***************************************************************************)
(* One run of the script on the widgets' values                            *)
(***************************************************************************)
ScoreColumns == {"Dependence", "Influence"}

ScriptRun(scen, ed, x0, y0, refl) ==
    IF \E p \in 1..Len(ed) : \E col \in ScoreColumns : to_numeric(ed[p][col]).exc
    THEN [raised |-> TRUE, data |-> <<>>,
          dtypes |-> [Dependence |-> "object", Influence |-> "object"],
          fig |-> NoOutput, downloads |-> NoDownloads]
    ELSE LET dt == [col \in ScoreColumns |-> ColumnDtype(ed, col)]
             d == apply_classify(dropna(ed), x0, y0)
         IN  [raised |-> FALSE, data |-> d, dtypes |-> dt,
              fig |-> plot(d, x0, y0),
              downloads |-> export(d, dt, scen, refl)]

Rerun == out' = ScriptRun(scenario_name', store', x_centre', y_centre', reflection')

(***************************************************************************)
(* Inputs                                                                  *)
(***************************************************************************)
Scenarios == {Blank, UK, Scotland}
XCentres == {-1, 0}
YCentres == {0, 1}
ReflectionTexts == {<<>>, <<" ">>, <<" ", "x", "\n">>}

\* What the user may put in a cell.  The Blank table's columns are untyped
\* and take any text; the presets' score columns are integer columns and take
\* a number or nothing.  (Input bound: the presets' Factor column is left as
\* loaded, and only the Dependence column is given an unparsable text.)
CellInputs(scen, col) ==
    IF scen = Blank
    THEN IF col = "Factor" THEN {NoName, Name(""), Name("A")}
         ELSE IF col = "Dependence" THEN {None, Text(<<"x">>), Text(<<"-", "1">>)}
         ELSE {None, Text(<<"1">>)}
    ELSE IF col = "Factor" THEN {}
         ELSE IF col = "Dependence" THEN {None, Num(-1)}
         ELSE {None, Num(1)}

\* The row positions the user edits or deletes: any row of the Blank table,
\* the first row of a preset (input bound).
EditPositions(scen) == IF scen = Blank THEN 1..MaxRows ELSE {1}

RemoveAt(s, p) == SubSeq(s, 1, p - 1) \o SubSeq(s, p + 1, Len(s))

ProbeIdle ==
    [d |-> 0, i |-> 0, x0 |-> 0, y0 |-> 0,
     label |-> "unset", prev |-> "unset", moved |-> "none"]

(***************************************************************************)
(* The application                                                         *)
(***************************************************************************)
UIInit ==
    /\ scenario_name = UK
    /\ store = scenario_options[UK]
    /\ x_centre = DefaultCentre
    /\ y_centre = DefaultCentre
    /\ reflection = <<>>
    /\ out = ScriptRun(UK, scenario_options[UK], DefaultCentre, DefaultCentre, <<>>)

Init == UIInit /\ probe = ProbeIdle

SelectScenario(s) ==
    /\ s # scenario_name
    /\ scenario_name' = s
    /\ store' = scenario_options[s]
    /\ UNCHANGED <<x_centre, y_centre, reflection, probe>>
    /\ Rerun

AddRow ==
    /\ Len(store) < MaxRows
    /\ store' = Append(store, Row(NoName, None, None))
    /\ UNCHANGED <<scenario_name, x_centre, y_centre, reflection, probe>>
    /\ Rerun

UpdateCell(p, col, v) ==
    /\ p \in 1..Len(store)
    /\ p \in EditPositions(scenario_name)
    /\ v \in CellInputs(scenario_name, col)
    /\ v # store[p][col]
    /\ store' = [store EXCEPT ![p][col] = v]
    /\ UNCHANGED <<scenario_name, x_centre, y_centre, reflection, probe>>
    /\ Rerun

DeleteRow(p) ==
    /\ p \in 1..Len(store)
    /\ p \in EditPositions(scenario_name)
    /\ store' = RemoveAt(store, p)
    /\ UNCHANGED <<scenario_name, x_centre, y_centre, reflection, probe>>
    /\ Rerun

SetXCentre(v) ==
    /\ v # x_centre
    /\ x_centre' = v
    /\ UNCHANGED <<scenario_name, store, y_centre, reflection, probe>>
    /\ Rerun

SetYCentre(v) ==
    /\ v # y_centre
    /\ y_centre' = v
    /\ UNCHANGED <<scenario_name, store, x_centre, reflection, probe>>
    /\ Rerun

SetReflection(t) ==
    /\ t # reflection
    /\ reflection' = t
    /\ UNCHANGED <<scenario_name, store, x_centre, y_centre, probe>>
    /\ Rerun

Next ==
    \/ \E s \in Scenarios : SelectScenario(s)
    \/ AddRow
    \/ \E p \in EditPositions(scenario_name) : \E col \in {"Factor", "Dependence", "Influence"} :
          \E v \in CellInputs(scenario_name, col) : UpdateCell(p, col, v)
    \/ \E p \in EditPositions(scenario_name) : DeleteRow(p)
    \/ \E v \in XCentres : SetXCentre(v)
    \/ \E v \in YCentres : SetYCentre(v)
    \/ \E t \in ReflectionTexts : SetReflection(t)

Spec == Init /\ [][Next]_vars

(***************************************************************************)
(* classify_quadrant on its own, over drawn inputs                         *)
(***************************************************************************)
Scores == (0 - MaxScore)..MaxScore
Centres == (0 - MaxCentre)..MaxCentre

ProbeRow == [Dependence |-> probe.d, Influence |-> probe.i]

ClassifyInit ==
    /\ UIInit
    /\ \E d \in Scores, i \in Scores, x0 \in Centres, y0 \in Centres :
          probe = [d |-> d, i |-> i, x0 |-> x0, y0 |-> y0,
                   label |-> "unset", prev |-> "unset", moved |-> "none"]

Classify ==
    /\ probe.label = "unset"
    /\ probe' = [probe EXCEPT !.label = classify_quadrant(ProbeRow, probe.x0, probe.y0)]
    /\ UNCHANGED ui_vars

MoveCentreX(nx) ==
    /\ probe.label # "unset"
    /\ nx # probe.x0
    /\ probe' = [probe EXCEPT !.x0 = nx, !.prev = probe.label, !.moved = "x",
                              !.label = classify_quadrant(ProbeRow, nx, probe.y0)]
    /\ UNCHANGED ui_vars

MoveCentreY(ny) ==
    /\ probe.label # "unset"
    /\ ny # probe.y0
    /\ probe' = [probe EXCEPT !.y0 = ny, !.prev = probe.label, !.moved = "y",
                              !.label = classify_quadrant(ProbeRow, probe.x0, ny)]
    /\ UNCHANGED ui_vars

ClassifyNext ==
    \/ Classify
    \/ \E nx \in Centres : MoveCentreX(nx)
    \/ \E ny \in Centres : MoveCentreY(ny)

SpecClassify == ClassifyInit /\ [][ClassifyNext]_vars

(***************************************************************************)
(* Properties                                                              *)
(***************************************************************************)
Shown == out.data
Csv == out.downloads.csv

\* The store positions of the rows of the classified table.
ShownRows == {Shown[k].row : k \in 1..Len(Shown)}

Uncoercible(row) ==
    to_numeric(row.Dependence).nan \/ to_numeric(row.Influence).nan

\* The number a CSV field reads back as.
ReadField(chars) == to_numeric(Text(chars))

\* The k-th plotted point is the k-th row of the table.
PlotIsTable ==
    out.fig.kind = "chart" =>
        /\ Len(out.fig.points) = Len(Shown)
        /\ \A k \in 1..Len(Shown) :
              /\ out.fig.points[k].x = Shown[k].Dependence
              /\ out.fig.points[k].y = Shown[k].Influence
              /\ out.fig.points[k].text = Shown[k].Factor

\* The k-th CSV record is the k-th row of the table.
CsvIsTable ==
    out.downloads.offered =>
        /\ Len(Csv.rows) = Len(Shown)
        /\ \A k \in 1..Len(Shown) :
              /\ Csv.rows[k].Factor = Shown[k].Factor
              /\ ReadField(Csv.rows[k].Dependence).val = Shown[k].Dependence
              /\ ReadField(Csv.rows[k].Influence).val = Shown[k].Influence

\* The table is in store order.
TableInStoreOrder ==
    \A k \in 1..Len(Shown) : \A j \in 1..Len(Shown) :
        k < j => Shown[k].row < Shown[j].row

\* C1: classify_quadrant returns exactly one label, the one of the rule
\* table: Active iff d < cx and i > cy, Critical iff d >= cx and i > cy,
\* Passive iff d >= cx and i <= cy, Inactive iff d < cx and i <= cy; the rows
\* (-5,13), (8,11), (9,13), (7,-3) at centre (0,0) are Active, Critical,
\* Critical, Passive.
C1_RuleTable ==
    probe.label # "unset" =>
        /\ probe.label \in Quadrants
        /\ (probe.label = "Active") <=> (probe.d < probe.x0 /\ probe.i > probe.y0)
        /\ (probe.label = "Critical") <=> (probe.d >= probe.x0 /\ probe.i > probe.y0)
        /\ (probe.label = "Passive") <=> (probe.d >= probe.x0 /\ probe.i <= probe.y0)
        /\ (probe.label = "Inactive") <=> (probe.d < probe.x0 /\ probe.i <= probe.y0)
        /\ (probe.x0 = 0 /\ probe.y0 = 0) =>
              /\ (probe.d = -5 /\ probe.i = 13) => probe.label = "Active"
              /\ (probe.d = 8 /\ probe.i = 11) => probe.label = "Critical"
              /\ (probe.d = 9 /\ probe.i = 13) => probe.label = "Critical"
              /\ (probe.d = 7 /\ probe.i = -3) => probe.label = "Passive"

C1_Witness ==
    /\ probe.d = 7 /\ probe.i = -3 /\ probe.x0 = 0 /\ probe.y0 = 0
    /\ probe.label = "Passive"

\* C2: a record on the influence centreline is Passive or Inactive, a record
\* on the dependence centreline is Critical or Passive; classify(cx,cy) is
\* Passive, (cx-1,cy) Inactive, (cx,cy+1) Critical, (cx-1,cy+1) Active.
C2_Boundaries ==
    probe.label # "unset" =>
        /\ probe.i = probe.y0 => probe.label \in {"Passive", "Inactive"}
        /\ probe.d = probe.x0 => probe.label \in {"Critical", "Passive"}
        /\ (probe.d = probe.x0 /\ probe.i = probe.y0) => probe.label = "Passive"
        /\ (probe.d = probe.x0 - 1 /\ probe.i = probe.y0) => probe.label = "Inactive"
        /\ (probe.d = probe.x0 /\ probe.i = probe.y0 + 1) => probe.label = "Critical"
        /\ (probe.d = probe.x0 - 1 /\ probe.i = probe.y0 + 1) => probe.label = "Active"

C2_Witness ==
    /\ probe.x0 = 1 /\ probe.y0 = -1
    /\ probe.d = probe.x0 - 1 /\ probe.i = probe.y0
    /\ probe.label = "Inactive"

\* C3: a row with a score that cannot be coerced to a number stays in the
\* store and is absent from the classified table, the plot and the CSV; the
\* run never raises; the rows without a missing value are all classified,
\* plotted and exported.
C3_UncoercibleExcluded ==
    /\ ~out.raised
    /\ \A p \in 1..Len(store) : Uncoercible(store[p]) => p \notin ShownRows
    /\ \A p \in 1..Len(store) :
          (store[p].Factor.kind # "none" /\ ~Uncoercible(store[p])) => p \in ShownRows
    /\ Len(Shown) > 0 => (out.fig.kind = "chart" /\ out.downloads.offered)
    /\ PlotIsTable
    /\ CsvIsTable

C3_Witness ==
    /\ \E p \in 1..Len(store) : store[p].Dependence = Text(<<"x">>)
    /\ Len(Shown) = 1
    /\ Len(out.fig.points) = 1
    /\ Len(Csv.rows) = 1

\* C4: the classified set is exactly the store rows whose name is present
\* and not the empty string and whose two scores are numeric.
C4_EmptyNameExcluded ==
    ShownRows = {p \in 1..Len(store) :
                    /\ store[p].Factor.kind # "none"
                    /\ store[p].Factor.s # ""
                    /\ ~Uncoercible(store[p])}

\* C5: when an edit of a cell makes the scores of an excluded row numeric,
\* the row (if it has a name) is back in the classified, plotted and exported
\* set after the run, at its store position relative to the other rows.
C5_Step ==
    \A p \in 1..Len(store) :
        ( /\ scenario_name' = scenario_name
          /\ Len(store') = Len(store)
          /\ Uncoercible(store[p])
          /\ ~Uncoercible(store'[p])
          /\ store'[p].Factor.kind # "none" )
        => /\ \E k \in 1..Len(out'.data) :
                 /\ out'.data[k].row = p
                 /\ out'.fig.points[k].text = store'[p].Factor.s
                 /\ out'.downloads.csv.rows[k].Factor = store'[p].Factor.s
                 /\ \A j \in 1..Len(out'.data) :
                       /\ out'.data[j].row \in 1..Len(store')
                       /\ (j < k) <=> (out'.data[j].row < p)
           /\ \A q \in 1..Len(store) :
                 (q # p /\ \E j \in 1..Len(out.data) : out.data[j].row = q)
                    => \E j \in 1..Len(out'.data) : out'.data[j].row = q

C5_RestoredAfterEdit == [][C5_Step]_vars

\* Every row of the Blank table is added with empty cells, hence excluded;
\* two classified rows there were both restored by edits.
C5_Witness ==
    /\ scenario_name = Blank
    /\ Len(store) = 2
    /\ Len(Shown) = 2
    /\ Shown[1].row = 1 /\ Shown[2].row = 2

\* C6: the CSV has one record per classified row, in table order; rows are
\* added at the end of the store, an edit changes one row in place, a
\* deletion removes the row at one position and keeps the order of the rest;
\* the classified table is the store's rows without a missing value, in
\* store order.
C6_State ==
    /\ TableInStoreOrder
    /\ ShownRows = {p \in 1..Len(store) : NotNa(store[p])}
    /\ \A k \in 1..Len(Shown) :
          /\ Shown[k].Factor = store[Shown[k].row].Factor.s
          /\ Shown[k].Dependence = to_numeric(store[Shown[k].row].Dependence).val
          /\ Shown[k].Influence = to_numeric(store[Shown[k].row].Influence).val
    /\ out.downloads.offered =>
          /\ Csv.header = CsvHeader
          /\ Len(Csv.rows) = Len(Shown)
          /\ \A k \in 1..Len(Csv.rows) :
                /\ Csv.rows[k].Scenario = scenario_name
                /\ Csv.rows[k].Factor = Shown[k].Factor
                /\ Csv.rows[k].Quadrant = Shown[k].Quadrant
                /\ ReadField(Csv.rows[k].Dependence).val = Shown[k].Dependence
                /\ ReadField(Csv.rows[k].Influence).val = Shown[k].Influence

C6_Step ==
    scenario_name' = scenario_name =>
        \/ store' = store
        \/ /\ Len(store') = Len(store) + 1
           /\ SubSeq(store', 1, Len(store)) = store
        \/ /\ Len(store') = Len(store)
           /\ \E p \in 1..Len(store) :
                 \A q \in 1..Len(store) : q # p => store'[q] = store[q]
        \/ /\ Len(store') = Len(store) - 1
           /\ \E p \in 1..Len(store) :
                 /\ \A q \in 1..(p - 1) : store'[q] = store[q]
                 /\ \A q \in p..Len(store') : store'[q] = store[q + 1]

C6_TableOrder == [](C6_State) /\ [][C6_Step]_vars

C6_Witness ==
    /\ Len(store) = 6
    /\ Uncoercible(store[1])
    /\ out.downloads.offered
    /\ Len(Csv.rows) = 5
    /\ Shown[1].row = 2

\* C7: a chart is produced iff the filtered set is not empty (else the
\* placeholder); export is not offered exactly when the filtered set is
\* empty and the reflection has no character other than whitespace; with an
\* empty filtered set and a reflection, the offered CSV has no data row.
OnlyWhitespace(t) == \A k \in 1..Len(t) : t[k] \in Whitespace

C7_Guards ==
    /\ (out.fig.kind = "chart") <=> (Len(Shown) > 0)
    /\ (out.fig.kind = "info") <=> (Len(Shown) = 0)
    /\ (~out.downloads.offered) <=> (Len(Shown) = 0 /\ OnlyWhitespace(reflection))
    /\ (Len(Shown) = 0 /\ ~OnlyWhitespace(reflection)) =>
          /\ out.downloads.offered
          /\ Csv.header = CsvHeader
          /\ Len(Csv.rows) = 0

C7_Witness ==
    /\ Len(Shown) = 0
    /\ Len(store) > 0
    /\ reflection = <<" ", "x", "\n">>
    /\ out.fig.kind = "info"
    /\ out.downloads.offered
    /\ Len(Csv.rows) = 0

\* C8: every record shown, plotted or exported carries the quadrant of its
\* current scores against the current centre; the guide lines are at the
\* current centre.
C8_QuadrantCurrent ==
    /\ \A k \in 1..Len(Shown) :
          LET now == [Dependence |-> to_numeric(store[Shown[k].row].Dependence).val,
                      Influence |-> to_numeric(store[Shown[k].row].Influence).val]
              q == classify_quadrant(now, x_centre, y_centre)
          IN  /\ Shown[k].Quadrant = q
              /\ out.fig.points[k].color = color_discrete_map[q]
              /\ out.downloads.csv.rows[k].Quadrant = q
    /\ out.fig.kind = "chart" => (out.fig.vline = x_centre /\ out.fig.hline = y_centre)

C8_Witness ==
    /\ x_centre # DefaultCentre
    /\ y_centre # DefaultCentre
    /\ \E k \in 1..Len(Shown) :
          /\ Shown[k].Quadrant = "Passive"
          /\ classify_quadrant(Shown[k], DefaultCentre, DefaultCentre) = "Active"

\* C9: reading the exported CSV back and classifying each record's two
\* numbers against the same centre gives, record by record, the quadrant
\* written in the CSV.
C9_CsvRoundTrip ==
    out.downloads.offered =>
        \A k \in 1..Len(Csv.rows) :
            LET d == ReadField(Csv.rows[k].Dependence)
                i == ReadField(Csv.rows[k].Influence)
            IN  /\ ~d.nan
                /\ ~i.nan
                /\ classify_quadrant([Dependence |-> d.val, Influence |-> i.val],
                                     x_centre, y_centre) = Csv.rows[k].Quadrant

C9_Witness ==
    /\ out.downloads.offered
    /\ x_centre = 0
    /\ \E k \in 1..Len(Csv.rows) :
          /\ Csv.rows[k].Dependence = <<"-", "1", ".", "0">>
          /\ Csv.rows[k].Influence = <<"1">>
          /\ Csv.rows[k].Quadrant = "Active"

\* C10: moving only center_x changes a record's quadrant only if its
\* dependence compares differently (< against >=) with the old and the new
\* center_x, and then between Active and Critical or between Inactive and
\* Passive; moving only center_y, only if its influence compares differently
\* (> against <=), and then between Active and Inactive or between Critical
\* and Passive.
C10_Step ==
    (probe.label # "unset" /\ probe'.label # "unset" /\ probe'.d = probe.d /\ probe'.i = probe.i) =>
        /\ (probe'.y0 = probe.y0 /\ probe'.label # probe.label) =>
              /\ (probe.d < probe.x0) # (probe.d < probe'.x0)
              /\ {probe.label, probe'.label} \in
                    {{"Active", "Critical"}, {"Inactive", "Passive"}}
        /\ (probe'.y0 = probe.y0 /\ ((probe.d < probe.x0) <=> (probe.d < probe'.x0))) =>
              probe'.label = probe.label
        /\ (probe'.x0 = probe.x0 /\ probe'.label # probe.label) =>
              /\ (probe.i > probe.y0) # (probe.i > probe'.y0)
              /\ {probe.label, probe'.label} \in
                    {{"Active", "Inactive"}, {"Critical", "Passive"}}
        /\ (probe'.x0 = probe.x0 /\ ((probe.i > probe.y0) <=> (probe.i > probe'.y0))) =>
              probe'.label = probe.label

C10_ThresholdMove == [][C10_Step]_vars

C10_Witness ==
    /\ probe.moved = "x"
    /\ probe.prev = "Inactive"
    /\ probe.label = "Passive"

====
